---------------------------- MODULE Spec2Model ----------------------------
(***************************************************************************)
(* Analytics core of MyNeighborhood: the exponential-smoothing forecaster  *)
(* (holt-winters), the migration-signal analyzer and the snapshot builder  *)
(* job that folds stored observations into the snapshot cache.             *)
(*                                                                         *)
(* JavaScript numbers are modelled as exact rationals [n, d] in lowest     *)
(* terms with d > 0, extended with the IEEE non-finite values that the     *)
(* source can produce by dividing by zero: d = 0 encodes +Infinity (n = 1),*)
(* -Infinity (n = -1) and NaN (n = 0).  Rounding error of doubles is not   *)
(* modelled.  The JavaScript value null is the record Null.                *)
(***************************************************************************)
EXTENDS Integers, Sequences, FiniteSets, TLC

VARIABLES
    call,           \* forecaster harness: the pending call and its arguments
    ret,            \* forecaster harness: what the call returned or threw
    clock,          \* wall clock (new Date()), in years
    metricObs,      \* table metric_obs: [geoId -> [code -> set of rows]]
    snapshotCache,  \* table snapshot_cache: set of rows
    pc,             \* position of the buildSnapshots job
    config,         \* SnapshotBuilderConfig of the current run
    asofDate,       \* const asofDate of the current run
    geoAreas,       \* result of prisma.geoArea.findMany in the current run
    idx,            \* number of geoAreas the for-loop has finished
    failed,         \* geoIds whose loop body threw in the current run
    upserted,       \* geoIds whose upsert completed in the current run
    lastUpsert,     \* history: per key, the snapshot of the latest completed upsert
    builtAt,        \* history: per key, the clock read by that snapshot's build
    overwritten,    \* history: keys whose row an upsert has updated in place
    connected,      \* prisma client connection state
    disconnects,    \* prisma.$disconnect() calls made by the current run
    runs,           \* number of runs started
    searchQuery,    \* search box: useState("") of the page
    searchResults,  \* search box: useState<SearchResult[]>([])
    isSearching,    \* search box: useState(false)
    inFlight,       \* search box: fetches awaiting their response
    typed,          \* search box: number of input changes handled
    failedFetches   \* history: fetches that were rejected or answered with an error

hwVars  == <<call, ret>>
aggVars == <<clock, metricObs, snapshotCache, pc, config, asofDate, geoAreas, idx,
             failed, upserted, lastUpsert, builtAt, overwritten, connected,
             disconnects, runs>>
vars    == <<call, ret, clock, metricObs, snapshotCache, pc, config, asofDate, geoAreas,
             idx, failed, upserted, lastUpsert, builtAt, overwritten, connected,
             disconnects, runs, searchQuery, searchResults, isSearching, inFlight,
             typed, failedFetches>>
uiVars  == <<searchQuery, searchResults, isSearching, inFlight, typed, failedFetches>>

---------------------------------------------------------------------------
(* JavaScript numbers *)

Null == [null |-> TRUE]

AbsInt(i) == IF i < 0 THEN -i ELSE i

RECURSIVE Gcd(_, _)
Gcd(a, b) == IF b = 0 THEN a ELSE Gcd(b, a % b)

Norm(n, d) == LET g == Gcd(AbsInt(n), d) IN [n |-> n \div g, d |-> d \div g]

Num(i)    == [n |-> i, d |-> 1]
Frac(n, d) == Norm(n, d)
NaN       == [n |-> 0, d |-> 0]
Inf(s)    == [n |-> s, d |-> 0]

IsFinite(x) == x.d > 0
IsNaN(x)    == x.d = 0 /\ x.n = 0
Sign(x)     == IF x.n > 0 THEN 1 ELSE IF x.n < 0 THEN -1 ELSE 0

Neg(x) == [n |-> -x.n, d |-> x.d]

Add(x, y) ==
    IF IsFinite(x) /\ IsFinite(y)
    THEN LET g == Gcd(x.d, y.d)
         IN  Norm(x.n * (y.d \div g) + y.n * (x.d \div g), (x.d \div g) * y.d)
    ELSE IF IsNaN(x) \/ IsNaN(y) THEN NaN
    ELSE IF ~IsFinite(x) /\ ~IsFinite(y)
         THEN (IF x.n = y.n THEN x ELSE NaN)
    ELSE IF IsFinite(x) THEN y ELSE x

Sub(x, y) == Add(x, Neg(y))

Mul(x, y) ==
    IF IsFinite(x) /\ IsFinite(y)
    THEN LET g1 == Gcd(AbsInt(x.n), y.d)
             g2 == Gcd(AbsInt(y.n), x.d)
         IN  [n |-> (x.n \div g1) * (y.n \div g2),
              d |-> (x.d \div g2) * (y.d \div g1)]
    ELSE IF IsNaN(x) \/ IsNaN(y) THEN NaN
    ELSE IF Sign(x) = 0 \/ Sign(y) = 0 THEN NaN
    ELSE Inf(Sign(x) * Sign(y))

Div(x, y) ==
    IF IsNaN(x) \/ IsNaN(y) THEN NaN
    ELSE IF IsFinite(y)
    THEN IF y.n = 0
         THEN (IF Sign(x) = 0 THEN NaN ELSE Inf(Sign(x)))
         ELSE IF IsFinite(x)
              THEN Mul(x, [n |-> Sign(y) * y.d, d |-> AbsInt(y.n)])
              ELSE Inf(Sign(x) * Sign(y))
    ELSE IF IsFinite(x) THEN Num(0) ELSE NaN

Abs(x) == [n |-> AbsInt(x.n), d |-> x.d]

\* x < y on numbers: false when either is NaN
Lt(x, y) ==
    IF IsNaN(x) \/ IsNaN(y) THEN FALSE
    ELSE IF IsFinite(x) /\ IsFinite(y) THEN x.n * y.d < y.n * x.d
    ELSE (IF IsFinite(x) THEN 0 ELSE x.n) < (IF IsFinite(y) THEN 0 ELSE y.n)

Gt(x, y) == Lt(y, x)

\* x <= y and x >= y on numbers: false when either is NaN
Le(x, y) == ~IsNaN(x) /\ ~IsNaN(y) /\ ~Lt(y, x)

Ge(x, y) == Le(y, x)

\* x || fallback on a number: 0 and NaN are falsy
OrElse(x, fallback) == IF IsNaN(x) \/ (IsFinite(x) /\ x.n = 0) THEN fallback ELSE x

---------------------------------------------------------------------------
(* Array helpers *)

RECURSIVE SumSeq(_)
SumSeq(s) == IF s = <<>> THEN Num(0) ELSE Add(SumSeq(SubSeq(s, 1, Len(s) - 1)), s[Len(s)])

---------------------------------------------------------------------------
(* Exponential-smoothing forecaster (holt-winters) *)

MaxLen     == 3    \* longest series handed to the forecaster harness
MaxPeriods == 2    \* largest explicit horizon handed to the harness
MaxGPLen   == 2    \* longest series handed to generateProjections

DefaultPeriods == 10
DefaultParams  == [alpha |-> Frac(3, 10), beta |-> Frac(1, 10)]

Throw(msg)  == [kind |-> "throw", message |-> msg]
Return(v)   == [kind |-> "return", value |-> v]
Pending     == [kind |-> "pending"]

\* a bug that leaves the trend out of the level update
RECURSIVE SmoothLoopNoTrend(_, _, _, _, _, _)
SmoothLoopNoTrend(values, params, i, level, trend, smoothed) ==
    IF i > Len(values)
    THEN [level |-> level, trend |-> trend, smoothed |-> smoothed]
    ELSE LET prevLevel == level
             newLevel  == Add(Mul(params.alpha, values[i]),
                              Mul(Sub(Num(1), params.alpha), level))
             newTrend  == Add(Mul(params.beta, Sub(newLevel, prevLevel)),
                              Mul(Sub(Num(1), params.beta), trend))
         IN  SmoothLoopNoTrend(values, params, i + 1, newLevel, newTrend,
                               Append(smoothed, newLevel))

\* a bug that updates the trend from the level after the step on both sides
RECURSIVE SmoothLoopTrendFromNewLevel(_, _, _, _, _, _)
SmoothLoopTrendFromNewLevel(values, params, i, level, trend, smoothed) ==
    IF i > Len(values)
    THEN [level |-> level, trend |-> trend, smoothed |-> smoothed]
    ELSE LET newLevel  == Add(Mul(params.alpha, values[i]),
                              Mul(Sub(Num(1), params.alpha), Add(level, trend)))
             prevLevel == newLevel
             newTrend  == Add(Mul(params.beta, Sub(newLevel, prevLevel)),
                              Mul(Sub(Num(1), params.beta), trend))
         IN  SmoothLoopTrendFromNewLevel(values, params, i + 1, newLevel, newTrend,
                                         Append(smoothed, newLevel))

\* the smoothing loop: i is the (1-based) index of the next point to absorb
RECURSIVE SmoothLoop(_, _, _, _, _, _)
SmoothLoop(values, params, i, level, trend, smoothed) ==
    IF i > Len(values)
    THEN [level |-> level, trend |-> trend, smoothed |-> smoothed]
    ELSE LET prevLevel == level
             newLevel  == Add(Mul(params.alpha, values[i]),
                              Mul(Sub(Num(1), params.alpha), Add(level, trend)))
             newTrend  == Add(Mul(params.beta, Sub(newLevel, prevLevel)),
                              Mul(Sub(Num(1), params.beta), trend))
         IN  SmoothLoop(values, params, i + 1, newLevel, newTrend,
                        Append(smoothed, newLevel))

\* for (let i = 1; i <= periods; i++) forecast.push(level + i * trend)
ForecastLoopShort(level, trend, periods) ==
    [i \in 1..(periods - 1) |-> Add(level, Mul(Num(i), trend))]

ForecastLoop(level, trend, periods) ==
    [i \in 1..periods |-> Add(level, Mul(Num(i), trend))]

\* a bug that leaves out Math.abs
MapeErrorsSigned(values, smoothed) ==
    [i \in 1..(Len(values) - 1) |->
        Mul(Div(Sub(values[i + 1], smoothed[i]), values[i + 1]), Num(100))]

\* values.slice(1).map((actual, i) => |(actual - smoothed[i]) / actual| * 100):
\* i is the index in the slice, so the k-th actual (k >= 2, 1-based) is paired
\* with smoothed[k - 1]
MapeErrors(values, smoothed) ==
    [i \in 1..(Len(values) - 1) |->
        Mul(Abs(Div(Sub(values[i + 1], smoothed[i]), values[i + 1])), Num(100))]

Mape(values, smoothed) ==
    LET errors == MapeErrors(values, smoothed)
    IN  Div(SumSeq(errors), Num(Len(errors)))

\* a bug that uses the MAPE as a fraction where it is a percentage
ConfidenceBandsNoPercent(forecast, mape) ==
    [lower |-> [i \in 1..Len(forecast) |-> Mul(forecast[i], Sub(Num(1), mape))],
     upper |-> [i \in 1..Len(forecast) |-> Mul(forecast[i], Add(Num(1), mape))]]

ConfidenceBands(forecast, mape) ==
    [lower |-> [i \in 1..Len(forecast) |->
                   Mul(forecast[i], Sub(Num(1), Div(mape, Num(100))))],
     upper |-> [i \in 1..Len(forecast) |->
                   Mul(forecast[i], Add(Num(1), Div(mape, Num(100))))]]

LengthGuardOffByOne(data) == Len(data) < 1

LengthGuard(data) == Len(data) < 2

holtWintersForecast(data, periods, params) ==
    IF LengthGuard(data)
    THEN Throw("Need at least 2 data points for forecasting")
    ELSE LET values   == [i \in 1..Len(data) |-> data[i].value]
             level0   == values[1]
             trend0   == IF Len(values) > 1 THEN Sub(values[2], values[1]) ELSE Num(0)
             fit      == SmoothLoop(values, params, 2, level0, trend0, <<level0>>)
             forecast == ForecastLoop(fit.level, fit.trend, periods)
             mape     == Mape(values, fit.smoothed)
         IN  Return([forecast        |-> forecast,
                     confidenceBands |-> ConfidenceBands(forecast, mape),
                     mape            |-> mape])

\* the object literal evaluates its three calls in order; the first throw
\* leaves generateProjections with no result
generateProjections(incomeData, populationData, ageData) ==
    LET income     == holtWintersForecast(incomeData, 10, DefaultParams)
        population == holtWintersForecast(populationData, 10, DefaultParams)
        age        == holtWintersForecast(ageData, 10, DefaultParams)
    IN  IF income.kind = "throw" THEN income
        ELSE IF population.kind = "throw" THEN population
        ELSE IF age.kind = "throw" THEN age
        ELSE Return([income     |-> income.value,
                     population |-> population.value,
                     age        |-> age.value])

\* the JavaScript value undefined
Undefined == [undefined |-> TRUE]

\* arr[arr.length - 1]
LastOrUndefined(arr) == IF Len(arr) = 0 THEN Undefined ELSE arr[Len(arr)]

\* a bug that takes the first element where the source takes the last
formatProjectionForAPIFirst(result, baseYear) ==
    LET finalYear     == baseYear + 10
        finalForecast == IF Len(result.forecast) = 0 THEN Undefined
                         ELSE result.forecast[1]
        finalLower    == LastOrUndefined(result.confidenceBands.lower)
        finalUpper    == LastOrUndefined(result.confidenceBands.upper)
    IN  [population_idx |-> finalForecast,
         hh_income_idx  |-> finalForecast,
         age_median     |-> finalForecast,
         p25            |-> [hh_income_idx |-> finalLower],
         p75            |-> [hh_income_idx |-> finalUpper]]

formatProjectionForAPI(result, baseYear) ==
    LET finalYear     == baseYear + 10
        finalForecast == LastOrUndefined(result.forecast)
        finalLower    == LastOrUndefined(result.confidenceBands.lower)
        finalUpper    == LastOrUndefined(result.confidenceBands.upper)
    IN  [population_idx |-> finalForecast,
         hh_income_idx  |-> finalForecast,
         age_median     |-> finalForecast,
         p25            |-> [hh_income_idx |-> finalLower],
         p75            |-> [hh_income_idx |-> finalUpper]]

---------------------------------------------------------------------------
(* The arguments of a call of the analytics functions, as the call leaves them *)

Reverse(s) == [i \in 1..Len(s) |-> s[Len(s) + 1 - i]]

\* a bug that reorders an input array in place (data.reverse(), data.sort())
InputsAfterReverseInPlace(c) ==
    IF "data" \in DOMAIN c THEN [c EXCEPT !.data = Reverse(@)]
    ELSE IF "incomeData" \in DOMAIN c THEN [c EXCEPT !.incomeData = Reverse(@)]
    ELSE IF "result" \in DOMAIN c THEN [c EXCEPT !.result.forecast = Reverse(@)]
    ELSE c

\* the functions reach their inputs through length, index and field reads,
\* map, filter, find, slice and reduce, none of which writes its receiver;
\* push is applied only to smoothed and forecast, arrays created in the call,
\* and no statement assigns to a field or an element of an input
InputsAfter(c) == c

---------------------------------------------------------------------------
(* Forecaster harness: one call of an exported function per behaviour *)

SampleValues   == {-2, 0, 1, 2, 3}
GPSampleValues == {1, 2}

SeqsUpTo(S, k) == UNION {[1..m -> S] : m \in 0..k}

\* TimeSeriesPoint[] whose periods are consecutive years and whose values are vs
Series(vs) == [i \in 1..Len(vs) |-> [period |-> i, value |-> Num(vs[i])]]

SampleParams ==
    {DefaultParams,
     [alpha |-> Frac(1, 2), beta |-> Frac(1, 2)],
     [alpha |-> Num(1), beta |-> Num(0)],
     [alpha |-> Num(0), beta |-> Num(1)]}

HWCalls ==
    {[fn |-> "holtWintersForecast", data |-> Series(vs), periods |-> p, params |-> q] :
        vs \in SeqsUpTo(SampleValues, MaxLen),
        p  \in (0..MaxPeriods) \cup {DefaultPeriods},
        q  \in SampleParams}

GPCalls ==
    {[fn |-> "generateProjections", incomeData |-> Series(a),
      populationData |-> Series(b), ageData |-> Series(c)] :
        a \in SeqsUpTo(GPSampleValues, MaxGPLen),
        b \in SeqsUpTo(GPSampleValues, MaxGPLen),
        c \in SeqsUpTo(GPSampleValues, MaxGPLen)}

CallHoltWintersForecast ==
    /\ call.fn = "holtWintersForecast"
    /\ ret = Pending
    /\ ret' = holtWintersForecast(call.data, call.periods, call.params)
    /\ call' = InputsAfter(call)
    /\ UNCHANGED aggVars
    /\ UNCHANGED uiVars

CallGenerateProjections ==
    /\ call.fn = "generateProjections"
    /\ ret = Pending
    /\ ret' = generateProjections(call.incomeData, call.populationData, call.ageData)
    /\ call' = InputsAfter(call)
    /\ UNCHANGED aggVars
    /\ UNCHANGED uiVars

\* ProjectionResult values: what the forecaster returns with the default
\* params, with an empty, a one-step and the default forecast
ProjectionSamples ==
    {holtWintersForecast(Series(vs), p, DefaultParams).value :
        vs \in SeqsUpTo(SampleValues, MaxLen) \ SeqsUpTo(SampleValues, 1),
        p  \in {0, 1, DefaultPeriods}}

BaseYears == {2014, 2024}

FPCalls ==
    {[fn |-> "formatProjectionForAPI", result |-> r, baseYear |-> y] :
        r \in ProjectionSamples, y \in BaseYears}

CallFormatProjectionForAPI ==
    /\ call.fn = "formatProjectionForAPI"
    /\ ret = Pending
    /\ ret' = Return(formatProjectionForAPI(call.result, call.baseYear))
    /\ call' = InputsAfter(call)
    /\ UNCHANGED aggVars
    /\ UNCHANGED uiVars

---------------------------------------------------------------------------
(* Migration signal analyzer *)

\* a bug that leaves the oldest year out of the window
calculateRollingAverageExclusive(data, currentYear) ==
    LET InWindow(d) == d.year > currentYear - 2 /\ d.year <= currentYear
        recentYears == [i \in 1..Len(SelectSeq(data, InWindow)) |->
                           SelectSeq(data, InWindow)[i].netMigration1834]
    IN  IF Len(recentYears) = 0 THEN Num(0)
        ELSE Div(SumSeq(recentYears), Num(Len(recentYears)))

\* a bug that leaves out the test for an empty window
calculateRollingAverageNoEmptyCheck(data, currentYear) ==
    LET InWindow(d) == d.year >= currentYear - 2 /\ d.year <= currentYear
        recentYears == [i \in 1..Len(SelectSeq(data, InWindow)) |->
                           SelectSeq(data, InWindow)[i].netMigration1834]
    IN  Div(SumSeq(recentYears), Num(Len(recentYears)))

calculateRollingAverage(data, currentYear) ==
    LET InWindow(d) == d.year >= currentYear - 2 /\ d.year <= currentYear
        recentYears == [i \in 1..Len(SelectSeq(data, InWindow)) |->
                           SelectSeq(data, InWindow)[i].netMigration1834]
    IN  IF Len(recentYears) = 0 THEN Num(0)
        ELSE Div(SumSeq(recentYears), Num(Len(recentYears)))

\* a bug that compares with the window ending the year before
analyzeMigrationSignalAdjacent(data, currentYear) ==
    LET AtYear(d)       == d.year = currentYear
        found           == SelectSeq(data, AtYear)
        rollingAverage  == calculateRollingAverage(data, currentYear)
        recentAverage   == calculateRollingAverage(data, currentYear)
        previousAverage == calculateRollingAverage(data, currentYear - 1)
        trend           == IF Gt(recentAverage, Add(previousAverage, Num(10)))
                           THEN "increasing"
                           ELSE IF Lt(recentAverage, Sub(previousAverage, Num(10)))
                           THEN "decreasing"
                           ELSE "stable"
        Recent(d)       == d.year >= currentYear - 4
        dataPoints      == Len(SelectSeq(data, Recent))
        confidence      == IF dataPoints >= 4
                              /\ Gt(Abs(Sub(recentAverage, previousAverage)), Num(20))
                           THEN "high"
                           ELSE IF dataPoints >= 3 THEN "medium" ELSE "low"
    IN  [netMigration   |-> IF Len(found) > 0
                            THEN OrElse(found[1].netMigration1834, Num(0))
                            ELSE Num(0),
         rollingAverage |-> rollingAverage,
         trend          |-> trend,
         confidence     |-> confidence]

\* a bug that counts only the points up to the current year
analyzeMigrationSignalBoundedCount(data, currentYear) ==
    LET AtYear(d)       == d.year = currentYear
        found           == SelectSeq(data, AtYear)
        rollingAverage  == calculateRollingAverage(data, currentYear)
        recentAverage   == calculateRollingAverage(data, currentYear)
        previousAverage == calculateRollingAverage(data, currentYear - 3)
        trend           == IF Gt(recentAverage, Add(previousAverage, Num(10)))
                           THEN "increasing"
                           ELSE IF Lt(recentAverage, Sub(previousAverage, Num(10)))
                           THEN "decreasing"
                           ELSE "stable"
        Recent(d)       == d.year >= currentYear - 4 /\ d.year <= currentYear
        dataPoints      == Len(SelectSeq(data, Recent))
        confidence      == IF dataPoints >= 4
                              /\ Gt(Abs(Sub(recentAverage, previousAverage)), Num(20))
                           THEN "high"
                           ELSE IF dataPoints >= 3 THEN "medium" ELSE "low"
    IN  [netMigration   |-> IF Len(found) > 0
                            THEN OrElse(found[1].netMigration1834, Num(0))
                            ELSE Num(0),
         rollingAverage |-> rollingAverage,
         trend          |-> trend,
         confidence     |-> confidence]

\* a bug that grants high confidence on the number of points alone
analyzeMigrationSignalCountOnly(data, currentYear) ==
    LET AtYear(d)       == d.year = currentYear
        found           == SelectSeq(data, AtYear)
        rollingAverage  == calculateRollingAverage(data, currentYear)
        recentAverage   == calculateRollingAverage(data, currentYear)
        previousAverage == calculateRollingAverage(data, currentYear - 3)
        trend           == IF Gt(recentAverage, Add(previousAverage, Num(10)))
                           THEN "increasing"
                           ELSE IF Lt(recentAverage, Sub(previousAverage, Num(10)))
                           THEN "decreasing"
                           ELSE "stable"
        Recent(d)       == d.year >= currentYear - 4
        dataPoints      == Len(SelectSeq(data, Recent))
        confidence      == IF dataPoints >= 4
                           THEN "high"
                           ELSE IF dataPoints >= 3 THEN "medium" ELSE "low"
    IN  [netMigration   |-> IF Len(found) > 0
                            THEN OrElse(found[1].netMigration1834, Num(0))
                            ELSE Num(0),
         rollingAverage |-> rollingAverage,
         trend          |-> trend,
         confidence     |-> confidence]

analyzeMigrationSignal(data, currentYear) ==
    LET AtYear(d)       == d.year = currentYear
        found           == SelectSeq(data, AtYear)
        rollingAverage  == calculateRollingAverage(data, currentYear)
        recentAverage   == calculateRollingAverage(data, currentYear)
        previousAverage == calculateRollingAverage(data, currentYear - 3)
        trend           == IF Gt(recentAverage, Add(previousAverage, Num(10)))
                           THEN "increasing"
                           ELSE IF Lt(recentAverage, Sub(previousAverage, Num(10)))
                           THEN "decreasing"
                           ELSE "stable"
        Recent(d)       == d.year >= currentYear - 4
        dataPoints      == Len(SelectSeq(data, Recent))
        confidence      == IF dataPoints >= 4
                              /\ Gt(Abs(Sub(recentAverage, previousAverage)), Num(20))
                           THEN "high"
                           ELSE IF dataPoints >= 3 THEN "medium" ELSE "low"
    IN  [netMigration   |-> IF Len(found) > 0
                            THEN OrElse(found[1].netMigration1834, Num(0))
                            ELSE Num(0),
         rollingAverage |-> rollingAverage,
         trend          |-> trend,
         confidence     |-> confidence]

\* thresholds tested with >= and <= where the source tests > and <
generateMigrationDescriptionInclusive(signal) ==
    LET rollingAverage == signal.rollingAverage
        trend          == signal.trend
        confidence     == signal.confidence
        base   == IF Ge(rollingAverage, Num(50))
                  THEN "Significant influx of young adults"
                  ELSE IF Ge(rollingAverage, Num(10))
                  THEN "Moderate influx of young adults"
                  ELSE IF Le(rollingAverage, Num(-50))
                  THEN "Significant outflow of young adults"
                  ELSE IF Le(rollingAverage, Num(-10))
                  THEN "Moderate outflow of young adults"
                  ELSE "Stable young adult population"
        trended == IF trend = "increasing" THEN base \o " (trending upward)"
                   ELSE IF trend = "decreasing" THEN base \o " (trending downward)"
                   ELSE base
    IN  IF confidence = "low" THEN trended \o " (limited data)" ELSE trended

generateMigrationDescription(signal) ==
    LET rollingAverage == signal.rollingAverage
        trend          == signal.trend
        confidence     == signal.confidence
        base   == IF Gt(rollingAverage, Num(50))
                  THEN "Significant influx of young adults"
                  ELSE IF Gt(rollingAverage, Num(10))
                  THEN "Moderate influx of young adults"
                  ELSE IF Lt(rollingAverage, Num(-50))
                  THEN "Significant outflow of young adults"
                  ELSE IF Lt(rollingAverage, Num(-10))
                  THEN "Moderate outflow of young adults"
                  ELSE "Stable young adult population"
        trended == IF trend = "increasing" THEN base \o " (trending upward)"
                   ELSE IF trend = "decreasing" THEN base \o " (trending downward)"
                   ELSE base
    IN  IF confidence = "low" THEN trended \o " (limited data)" ELSE trended

---------------------------------------------------------------------------
(* Migration analyzer harness *)

MaxMigLen   == 2    \* longest array over every sampled point
MaxMigDense == 4    \* longest array over the points of DensePoints

MigYears  == {-5, -3, -2, 0, 1}
MigValues == {-30, 10, 30}

Point(y, v) == [year |-> y, netMigration1834 |-> Num(v)]

MigPoints == {Point(y, v) : y \in MigYears, v \in MigValues}

DensePoints ==
    {Point(0, 30), Point(0, 10), Point(1, 10), Point(-3, 10), Point(-5, 30),
     Point(-2, -30)}

MigData == SeqsUpTo(MigPoints, MaxMigLen) \cup SeqsUpTo(DensePoints, MaxMigDense)

CurrentYears == {0, 1}

SignalSamples ==
    {[netMigration |-> Num(0), rollingAverage |-> r, trend |-> t, confidence |-> c] :
        r \in {Num(-51), Num(-50), Frac(-99, 2), Num(-11), Num(-10), Num(0), Num(10),
               Frac(21, 2), Num(11), Num(50), Frac(101, 2), Num(51), NaN},
        t \in {"increasing", "decreasing", "stable"},
        c \in {"high", "medium", "low"}}

MigCalls ==
    {[fn |-> f, data |-> d, currentYear |-> y] :
        f \in {"calculateRollingAverage", "analyzeMigrationSignal"},
        d \in MigData, y \in CurrentYears}
    \cup {[fn |-> "generateMigrationDescription", signal |-> sig] : sig \in SignalSamples}

CallCalculateRollingAverage ==
    /\ call.fn = "calculateRollingAverage"
    /\ ret = Pending
    /\ ret' = Return(calculateRollingAverage(call.data, call.currentYear))
    /\ call' = InputsAfter(call)
    /\ UNCHANGED aggVars
    /\ UNCHANGED uiVars

CallAnalyzeMigrationSignal ==
    /\ call.fn = "analyzeMigrationSignal"
    /\ ret = Pending
    /\ ret' = Return(analyzeMigrationSignal(call.data, call.currentYear))
    /\ call' = InputsAfter(call)
    /\ UNCHANGED aggVars
    /\ UNCHANGED uiVars

CallGenerateMigrationDescription ==
    /\ call.fn = "generateMigrationDescription"
    /\ ret = Pending
    /\ ret' = Return(generateMigrationDescription(call.signal))
    /\ call' = InputsAfter(call)
    /\ UNCHANGED aggVars
    /\ UNCHANGED uiVars

---------------------------------------------------------------------------
(* Math.pow *)

RECURSIVE IntPow(_, _)
IntPow(b, k) == IF k = 0 THEN 1 ELSE b * IntPow(b, k - 1)

\* the largest k in lo..(hi - 1) with k^a <= m, given lo^a <= m < hi^a
RECURSIVE RootSearch(_, _, _, _)
RootSearch(m, a, lo, hi) ==
    IF hi - lo <= 1 THEN lo
    ELSE LET mid == (lo + hi) \div 2
         IN  IF IntPow(mid, a) <= m
             THEN RootSearch(m, a, mid, hi)
             ELSE RootSearch(m, a, lo, mid)

RECURSIVE RootBound(_, _, _)
RootBound(m, a, h) == IF IntPow(h, a) > m THEN h ELSE RootBound(m, a, 2 * h)

\* floor of the a-th root of the natural number m
IntRoot(m, a) == RootSearch(m, a, 0, RootBound(m, a, 1))

\* results of Math.pow that are not rational are kept to this many steps per unit
PowGrid == 100

\* the a-th root of the positive rational y: exact when it is rational,
\* otherwise rounded down to a multiple of 1 / PowGrid
Root(y, a) ==
    IF a = 1 THEN y
    ELSE LET rn == IntRoot(y.n, a)
             rd == IntRoot(y.d, a)
         IN  IF IntPow(rn, a) = y.n /\ IntPow(rd, a) = y.d
             THEN [n |-> rn, d |-> rd]
             ELSE Frac(IntRoot((y.n * IntPow(PowGrid, a)) \div y.d, a), PowGrid)

\* Math.pow(x, e)
Pow(x, e) ==
    IF IsNaN(e) THEN NaN
    ELSE IF IsFinite(e) /\ e.n = 0 THEN Num(1)
    ELSE IF IsNaN(x) THEN NaN
    ELSE IF ~IsFinite(e)
    THEN (IF Abs(x) = Num(1) THEN NaN
          ELSE IF Gt(Abs(x), Num(1)) <=> e.n > 0 THEN Inf(1) ELSE Num(0))
    ELSE IF Sign(x) < 0 /\ e.d # 1 THEN NaN
    ELSE IF ~IsFinite(x)
    THEN (IF e.n > 0
          THEN (IF Sign(x) < 0 /\ e.n % 2 = 1 THEN Inf(-1) ELSE Inf(1))
          ELSE Num(0))
    ELSE IF x.n = 0 THEN (IF e.n > 0 THEN Num(0) ELSE Inf(1))
    ELSE LET k      == AbsInt(e.n)
             raised == [n |-> IntPow(x.n, k), d |-> IntPow(x.d, k)]
             signed == IF e.n > 0 THEN raised
                       ELSE [n |-> Sign(raised) * raised.d, d |-> AbsInt(raised.n)]
         IN  Root(signed, e.d)

---------------------------------------------------------------------------
(* CAGR calculator *)

\* a bug that tests < 0 where the source tests <= 0
calculateCAGRStrictGuard(startValue, endValue, years) ==
    IF Lt(startValue, Num(0)) \/ Lt(endValue, Num(0)) \/ Lt(years, Num(0))
    THEN Num(0)
    ELSE Sub(Pow(Div(endValue, startValue), Div(Num(1), years)), Num(1))

\* a bug that raises to the power years instead of 1 / years
calculateCAGRWrongExponent(startValue, endValue, years) ==
    IF Le(startValue, Num(0)) \/ Le(endValue, Num(0)) \/ Le(years, Num(0))
    THEN Num(0)
    ELSE Sub(Pow(Div(endValue, startValue), years), Num(1))

calculateCAGR(startValue, endValue, years) ==
    IF Le(startValue, Num(0)) \/ Le(endValue, Num(0)) \/ Le(years, Num(0))
    THEN Num(0)
    ELSE Sub(Pow(Div(endValue, startValue), Div(Num(1), years)), Num(1))

\* a bug that tests >= and <= where the source tests > and <
classifyGrowthTrendInclusive(cagr) ==
    IF Ge(cagr, Frac(2, 100)) THEN "growing"
    ELSE IF Le(cagr, Frac(-2, 100)) THEN "declining"
    ELSE "stable"

classifyGrowthTrend(cagr) ==
    IF Gt(cagr, Frac(2, 100)) THEN "growing"
    ELSE IF Lt(cagr, Frac(-2, 100)) THEN "declining"
    ELSE "stable"

\* strings that are taken apart are sequences of one-character strings
DigitChars == <<"0", "1", "2", "3", "4", "5", "6", "7", "8", "9">>

RECURSIVE DigitsOf(_)
DigitsOf(k) ==
    IF k < 10 THEN <<DigitChars[k + 1]>>
    ELSE Append(DigitsOf(k \div 10), DigitChars[(k % 10) + 1])

\* Number.prototype.toFixed(1): for x < 0 a "-" and the digits of -x; n is the
\* integer for which n / 10 - x is closest to zero, the larger one on a tie
ToFixed1(x) ==
    IF IsNaN(x) THEN <<"N", "a", "N">>
    ELSE IF ~IsFinite(x)
    THEN (IF x.n < 0 THEN <<"-">> ELSE <<>>)
         \o <<"I", "n", "f", "i", "n", "i", "t", "y">>
    ELSE LET a == Abs(x)
             n == (20 * a.n + a.d) \div (2 * a.d)
         IN  (IF x.n < 0 THEN <<"-">> ELSE <<>>)
             \o DigitsOf(n \div 10) \o <<".">> \o DigitsOf(n % 10)

\* a bug that writes the minus sign itself as well
formatCAGRDoubledSign(cagr) ==
    LET percentage == Mul(cagr, Num(100))
        sign       == IF Ge(percentage, Num(0)) THEN <<"+">> ELSE <<"-">>
    IN  sign \o ToFixed1(percentage) \o <<"%">>

formatCAGR(cagr) ==
    LET percentage == Mul(cagr, Num(100))
        sign       == IF Ge(percentage, Num(0)) THEN <<"+">> ELSE <<>>
    IN  sign \o ToFixed1(percentage) \o <<"%">>

---------------------------------------------------------------------------
(* CAGR harness *)

CagrArgSamples ==
    {Num(-1), Num(0), Num(1), Num(2), Num(4), Num(8), Num(100), Num(200), NaN, Inf(1)}

YearsSamples == {Num(-1), Num(0), Frac(1, 2), Num(1), Num(2), Num(3), NaN, Inf(1)}

CagrSamples ==
    {Inf(-1), Num(-1), Frac(-1, 4), Frac(-21, 1000), Frac(-2, 100), Frac(-19, 1000),
     Frac(-8, 1000), Frac(-4, 10000), Num(0), Frac(4, 10000), Frac(5, 10000),
     Frac(19, 1000), Frac(2, 100), Frac(21, 1000), Frac(37, 1000), Frac(995, 10000),
     Num(1), Frac(1234, 1000), Inf(1), NaN}

CagrCalls ==
    {[fn |-> "calculateCAGR", startValue |-> a, endValue |-> b, years |-> y] :
        a \in CagrArgSamples, b \in CagrArgSamples, y \in YearsSamples}
    \cup {[fn |-> "calculateCAGR", startValue |-> Num(100), endValue |-> Num(100),
           years |-> Num(5)]}
    \cup {[fn |-> f, cagr |-> c] :
        f \in {"classifyGrowthTrend", "formatCAGR"}, c \in CagrSamples}

CallCalculateCAGR ==
    /\ call.fn = "calculateCAGR"
    /\ ret = Pending
    /\ ret' = Return(calculateCAGR(call.startValue, call.endValue, call.years))
    /\ UNCHANGED call
    /\ UNCHANGED aggVars
    /\ UNCHANGED uiVars

CallClassifyGrowthTrend ==
    /\ call.fn = "classifyGrowthTrend"
    /\ ret = Pending
    /\ ret' = Return(classifyGrowthTrend(call.cagr))
    /\ UNCHANGED call
    /\ UNCHANGED aggVars
    /\ UNCHANGED uiVars

CallFormatCAGR ==
    /\ call.fn = "formatCAGR"
    /\ ret = Pending
    /\ ret' = Return(formatCAGR(call.cagr))
    /\ UNCHANGED call
    /\ UNCHANGED aggVars
    /\ UNCHANGED uiVars

---------------------------------------------------------------------------
(* Snapshot builder job: tables and reads *)

MaxPoints == 2    \* most observations stored per geography and series
MaxClock  == 1    \* years the wall clock may advance
MaxRuns   == 2    \* runs of buildSnapshots

Lookback  == 5    \* years passed to getLatestMetricData

GeoIds == {"g1", "g2"}

\* table metric_series (codes the job reads, as seeded)
metricSeries ==
    {"hh_income_median", "income_per_capita", "age_median", "net_migration_18_34"}

\* value of the k-th stored observation of a series
ObsValue(geoId, code, k) ==
    LET off == IF geoId = "g1" THEN 0 ELSE 1
    IN  CASE code = "hh_income_median"    -> 3 + k * k + off
          [] code = "income_per_capita"   -> 2 + k + off
          [] code = "age_median"          -> 30 + 2 * k + off
          [] code = "net_migration_18_34" -> 10 * k - 15 + off

\* n yearly observations, the oldest dated Lookback years before clock 0
ObsRows(geoId, code, n) ==
    {[period |-> k - 1 - Lookback, value |-> ObsValue(geoId, code, k)] : k \in 1..n}

Shapes == [{"income", "age"} -> 0..MaxPoints]

StoreOf(shape) ==
    [g \in GeoIds |->
        [c \in metricSeries |->
            ObsRows(g, c, IF c \in {"hh_income_median", "income_per_capita"}
                          THEN shape[g]["income"] ELSE shape[g]["age"])]]

Stores == {StoreOf(shape) : shape \in [GeoIds -> Shapes]}

\* orderBy: { period: 'asc' }
RECURSIVE OrderByPeriod(_)
OrderByPeriod(rows) ==
    IF rows = {} THEN <<>>
    ELSE LET first == CHOOSE r \in rows : \A q \in rows : r.period <= q.period
         IN  <<first>> \o OrderByPeriod(rows \ {first})

\* now is the value of new Date() read by the call
getLatestMetricData(geoId, metricCode, years, now) ==
    IF metricCode \notin metricSeries THEN <<>>
    ELSE LET cutoffDate   == now - years
             observations == OrderByPeriod(
                 {o \in metricObs[geoId][metricCode] : o.period >= cutoffDate})
         IN  [i \in 1..Len(observations) |->
                 [period |-> observations[i].period,
                  value  |-> Num(observations[i].value)]]

getMigrationData(geoId, years, now) ==
    getLatestMetricData(geoId, "net_migration_18_34", years, now)

getEmploymentTrends(geoId, years) ==
    [totalGrowth  |-> Frac(21, 1000),
     topGrowing   |-> <<[naics |-> "62", name |-> "Health Care", cagr |-> Frac(37, 1000)],
                        [naics |-> "54", name |-> "Professional Services", cagr |-> Frac(25, 1000)]>>,
     topDeclining |-> <<[naics |-> "31-33", name |-> "Manufacturing", cagr |-> Frac(-15, 1000)],
                        [naics |-> "23", name |-> "Construction", cagr |-> Frac(-8, 1000)]>>]

---------------------------------------------------------------------------
(* Snapshot builder job: projections, snapshot record, upsert *)

Last(s) == s[Len(s)]

\* d => ({ period: d.period.getFullYear(), value: d.value })
ToTimeSeries(rows) == [i \in 1..Len(rows) |-> [period |-> rows[i].period, value |-> rows[i].value]]

ProjectionFallback ==
    [population_idx |-> Num(1),
     hh_income_idx  |-> Num(1),
     age_median     |-> Null,
     p25            |-> [hh_income_idx |-> Num(1)],
     p75            |-> [hh_income_idx |-> Num(1)]]

\* the object returned inside the try block
ProjectionsFrom(data, incomeProjection, ageProjection) ==
    [population_idx |-> Frac(106, 100),
     hh_income_idx  |-> OrElse(Div(Last(incomeProjection.forecast), data.income[1].value), Num(1)),
     age_median     |-> Last(ageProjection.forecast),
     p25            |-> [hh_income_idx |->
                            OrElse(Div(Last(incomeProjection.confidenceBands.lower),
                                       data.income[1].value), Num(1))],
     p75            |-> [hh_income_idx |->
                            OrElse(Div(Last(incomeProjection.confidenceBands.upper),
                                       data.income[1].value), Num(1))]]

\* a bug that leaves out the try/catch: the forecaster's error escapes
calculateProjectionsUncaught(geoId, data) ==
    LET incomeProjection == holtWintersForecast(ToTimeSeries(data.income), 10, DefaultParams)
        ageProjection    == holtWintersForecast(ToTimeSeries(data.age), 10, DefaultParams)
    IN  IF incomeProjection.kind = "throw" THEN incomeProjection
        ELSE IF ageProjection.kind = "throw" THEN ageProjection
        ELSE ProjectionsFrom(data, incomeProjection.value, ageProjection.value)

calculateProjections(geoId, data) ==
    LET incomeProjection == holtWintersForecast(ToTimeSeries(data.income), 10, DefaultParams)
        ageProjection    == holtWintersForecast(ToTimeSeries(data.age), 10, DefaultParams)
    IN  IF incomeProjection.kind = "throw" \/ ageProjection.kind = "throw"
        THEN ProjectionFallback
        ELSE ProjectionsFrom(data, incomeProjection.value, ageProjection.value)

LatestValue(rows) == IF Len(rows) > 0 THEN Last(rows).value ELSE Null

\* a bug that cuts the history back from the as-of date, not from the clock
buildSnapshotForGeoAsofWindow(geoId, asof, now) ==
    LET incomeData     == getLatestMetricData(geoId, "hh_income_median", Lookback, asof)
        perCapitaData  == getLatestMetricData(geoId, "income_per_capita", Lookback, asof)
        ageData        == getLatestMetricData(geoId, "age_median", Lookback, asof)
        migrationData  == getMigrationData(geoId, Lookback, asof)
        employmentData == getEmploymentTrends(geoId, Lookback)
        projections    == calculateProjections(geoId, [income |-> incomeData, age |-> ageData])
    IN  [geoId            |-> geoId,
         asof             |-> asof,
         incomePerCapita  |-> LatestValue(perCapitaData),
         hhIncomeMedian   |-> LatestValue(incomeData),
         ageMedian        |-> LatestValue(ageData),
         netMigration1834 |-> LatestValue(migrationData),
         empGrowth5y      |-> employmentData.totalGrowth,
         topGrowing       |-> employmentData.topGrowing,
         topDeclining     |-> employmentData.topDeclining,
         proj10           |-> projections]

buildSnapshotForGeo(geoId, asof, now) ==
    LET incomeData     == getLatestMetricData(geoId, "hh_income_median", Lookback, now)
        perCapitaData  == getLatestMetricData(geoId, "income_per_capita", Lookback, now)
        ageData        == getLatestMetricData(geoId, "age_median", Lookback, now)
        migrationData  == getMigrationData(geoId, Lookback, now)
        employmentData == getEmploymentTrends(geoId, Lookback)
        projections    == calculateProjections(geoId, [income |-> incomeData, age |-> ageData])
    IN  [geoId            |-> geoId,
         asof             |-> asof,
         incomePerCapita  |-> LatestValue(perCapitaData),
         hhIncomeMedian   |-> LatestValue(incomeData),
         ageMedian        |-> LatestValue(ageData),
         netMigration1834 |-> LatestValue(migrationData),
         empGrowth5y      |-> employmentData.totalGrowth,
         topGrowing       |-> employmentData.topGrowing,
         topDeclining     |-> employmentData.topDeclining,
         proj10           |-> projections]

SameKey(row, snapshot) == row.geoId = snapshot.geoId /\ row.asof = snapshot.asof

\* a bug that always takes the create branch
upsertAlwaysCreates(table, snapshot) == table \cup {snapshot}

\* prisma.snapshotCache.upsert({ where: geoId_asof, update: {...}, create: snapshot })
upsertSnapshot(table, snapshot) ==
    IF \E r \in table : SameKey(r, snapshot)
    THEN {IF SameKey(r, snapshot)
          THEN [r EXCEPT !.incomePerCapita  = snapshot.incomePerCapita,
                         !.hhIncomeMedian   = snapshot.hhIncomeMedian,
                         !.ageMedian        = snapshot.ageMedian,
                         !.netMigration1834 = snapshot.netMigration1834,
                         !.empGrowth5y      = snapshot.empGrowth5y,
                         !.topGrowing       = snapshot.topGrowing,
                         !.topDeclining     = snapshot.topDeclining,
                         !.proj10           = snapshot.proj10]
          ELSE r : r \in table}
    ELSE table \cup {snapshot}

---------------------------------------------------------------------------
(* Snapshot builder job: buildSnapshots as a process *)

NoFields == [x \in {} |-> x]

\* as-of dates a caller passes explicitly (years relative to clock 0)
AsofChoices == {-5}

\* config.asofDate and config.geoIds are optional; the CLI passes one geoId
Configs ==
    {a @@ g : a \in {NoFields} \cup {[asofDate |-> d] : d \in AsofChoices},
              g \in {NoFields} \cup {[geoIds |-> <<id>>] : id \in GeoIds}}

Range(s) == {s[i] : i \in 1..Len(s)}

\* every order in which findMany may return the rows of S
Orders(S) == {s \in [1..Cardinality(S) -> S] : Range(s) = S}

Key(snapshot) == <<snapshot.geoId, snapshot.asof>>

Finished == {"idle", "resolved", "rejected"}

\* buildSnapshots(config): const asofDate = config.asofDate || new Date()
StartRun(cfg) ==
    /\ pc \in Finished
    /\ runs' = runs + 1
    /\ config' = cfg
    /\ asofDate' = IF "asofDate" \in DOMAIN cfg THEN cfg.asofDate ELSE clock
    /\ geoAreas' = <<>>
    /\ idx' = 0
    /\ failed' = {}
    /\ upserted' = {}
    /\ pc' = "findMany"
    /\ disconnects' = 0
    /\ UNCHANGED hwVars
    /\ UNCHANGED uiVars
    /\ UNCHANGED <<clock, metricObs, snapshotCache, lastUpsert, builtAt, overwritten, connected>>

\* prisma.geoArea.findMany({ where: config.geoIds ? { geoId: { in } } : {} })
FindManyReturns ==
    /\ pc = "findMany"
    /\ LET matching == IF "geoIds" \in DOMAIN config
                       THEN GeoIds \cap Range(config.geoIds) ELSE GeoIds
       IN  \E order \in Orders(matching) : geoAreas' = order
    /\ connected' = TRUE
    /\ pc' = "loop"
    /\ UNCHANGED hwVars
    /\ UNCHANGED uiVars
    /\ UNCHANGED <<clock, metricObs, snapshotCache, config, asofDate, idx, failed,
                   upserted, lastUpsert, builtAt, overwritten, disconnects, runs>>

\* findMany rejects: the outer catch logs and re-throws
FindManyThrows ==
    /\ pc = "findMany"
    /\ connected' = TRUE
    /\ pc' = "finallyThrow"
    /\ UNCHANGED hwVars
    /\ UNCHANGED uiVars
    /\ UNCHANGED <<clock, metricObs, snapshotCache, config, asofDate, geoAreas, idx,
                   failed, upserted, lastUpsert, builtAt, overwritten, disconnects, runs>>

InLoop == pc = "loop" /\ idx < Len(geoAreas)

\* a bug that leaves out the inner try/catch: the failure ends the loop
RethrownFromLoop(geoId) ==
    /\ failed' = failed \cup {geoId}
    /\ pc' = "finallyThrow"
    /\ UNCHANGED hwVars
    /\ UNCHANGED uiVars
    /\ UNCHANGED <<clock, metricObs, snapshotCache, config, asofDate, geoAreas, idx,
                   upserted, lastUpsert, builtAt, overwritten, connected, disconnects, runs>>

\* the inner catch: log, go on with the next geoArea
CaughtInLoop(geoId) ==
    /\ failed' = failed \cup {geoId}
    /\ idx' = idx + 1
    /\ UNCHANGED hwVars
    /\ UNCHANGED uiVars
    /\ UNCHANGED <<clock, metricObs, snapshotCache, pc, config, asofDate, geoAreas,
                   upserted, lastUpsert, builtAt, overwritten, connected, disconnects, runs>>

\* loop body: buildSnapshotForGeo and upsertSnapshot both complete
LoopBodyCompletes ==
    /\ InLoop
    /\ \E snapshot \in {buildSnapshotForGeo(geoAreas[idx + 1], asofDate, clock)} :
           /\ snapshotCache' = upsertSnapshot(snapshotCache, snapshot)
           /\ lastUpsert' = (Key(snapshot) :> snapshot) @@ lastUpsert
           /\ builtAt' = (Key(snapshot) :> clock) @@ builtAt
           /\ overwritten' = IF \E r \in snapshotCache : SameKey(r, snapshot)
                             THEN overwritten \cup {Key(snapshot)} ELSE overwritten
           /\ upserted' = upserted \cup {snapshot.geoId}
    /\ idx' = idx + 1
    /\ UNCHANGED hwVars
    /\ UNCHANGED uiVars
    /\ UNCHANGED <<clock, metricObs, pc, config, asofDate, geoAreas, failed,
                   connected, disconnects, runs>>

\* loop body: a query inside buildSnapshotForGeo rejects
BuildSnapshotThrows ==
    /\ InLoop
    /\ CaughtInLoop(geoAreas[idx + 1])

\* loop body: the snapshot is built and prisma.snapshotCache.upsert rejects
UpsertThrows ==
    /\ InLoop
    /\ buildSnapshotForGeo(geoAreas[idx + 1], asofDate, clock).geoId = geoAreas[idx + 1]
    /\ CaughtInLoop(geoAreas[idx + 1])

LoopEnds ==
    /\ pc = "loop"
    /\ idx = Len(geoAreas)
    /\ pc' = "finallyReturn"
    /\ UNCHANGED hwVars
    /\ UNCHANGED uiVars
    /\ UNCHANGED <<clock, metricObs, snapshotCache, config, asofDate, geoAreas, idx,
                   failed, upserted, lastUpsert, builtAt, overwritten, connected, disconnects, runs>>

\* a bug that disconnects after the loop, not in a finally block
DisconnectSkippedOnThrow ==
    /\ pc \in {"finallyReturn", "finallyThrow"}
    /\ connected' = IF pc = "finallyReturn" THEN FALSE ELSE connected
    /\ disconnects' = IF pc = "finallyReturn" THEN disconnects + 1 ELSE disconnects
    /\ pc' = IF pc = "finallyReturn" THEN "resolved" ELSE "rejected"
    /\ config' = NoFields   \* the call's locals go out of scope
    /\ asofDate' = 0
    /\ geoAreas' = <<>>
    /\ idx' = 0
    /\ failed' = {}
    /\ upserted' = {}
    /\ UNCHANGED hwVars
    /\ UNCHANGED uiVars
    /\ UNCHANGED <<clock, metricObs, snapshotCache, lastUpsert, builtAt, overwritten, runs>>

\* finally { await prisma.$disconnect() }
Disconnect ==
    /\ pc \in {"finallyReturn", "finallyThrow"}
    /\ connected' = FALSE
    /\ disconnects' = disconnects + 1
    /\ pc' = IF pc = "finallyReturn" THEN "resolved" ELSE "rejected"
    /\ config' = NoFields   \* the call's locals go out of scope
    /\ asofDate' = 0
    /\ geoAreas' = <<>>
    /\ idx' = 0
    /\ failed' = {}
    /\ upserted' = {}
    /\ UNCHANGED hwVars
    /\ UNCHANGED uiVars
    /\ UNCHANGED <<clock, metricObs, snapshotCache, lastUpsert, builtAt, overwritten, runs>>

\* the wall clock advances
Tick ==
    /\ clock < MaxClock
    /\ clock' = clock + 1
    /\ UNCHANGED hwVars
    /\ UNCHANGED uiVars
    /\ UNCHANGED <<metricObs, snapshotCache, pc, config, asofDate, geoAreas, idx,
                   failed, upserted, lastUpsert, builtAt, overwritten, connected, disconnects, runs>>

(***************************************************************************)
(* The search box of the home page and of the compare page (the two pages  *)
(* hold the same handleSearch and handleInputChange) and the route         *)
(* GET /api/geo/search that answers it.  Strings are sequences of          *)
(* one-character strings.  The query travels percent-encoded in the URL    *)
(* and URL.searchParams decodes it: the route reads the string typed.      *)
(***************************************************************************)
MaxTyped == 3    \* input changes handled by the page

SearchLimit == 5    \* &limit=5 of the request

\* String.prototype.toLowerCase over the letters of the sampled strings
LowerChar(c) ==
    CASE c = "L" -> "l"
      [] c = "C" -> "c"
      [] OTHER -> c

ToLower(str) == [i \in 1..Len(str) |-> LowerChar(str[i])]

\* String.prototype.trim
RECURSIVE Trim(_)
Trim(str) ==
    IF str = <<>> THEN <<>>
    ELSE IF Head(str) = " " THEN Trim(Tail(str))
    ELSE IF str[Len(str)] = " " THEN Trim(SubSeq(str, 1, Len(str) - 1))
    ELSE str

\* { contains: term }
Contains(str, term) ==
    \E i \in 1..(Len(str) - Len(term) + 1) : SubSeq(str, i, i + Len(term) - 1) = term

\* table geo_area in the order of orderBy: [{ name: 'asc' }]
AreasByName ==
    << [geoId |-> <<"z", "6", "0">>, name |-> <<"C", "h", "i">>, zipCode |-> <<"6", "0">>],
       [geoId |-> <<"p", "2", "1">>, name |-> <<"L", "o", "s">>, zipCode |-> Null],
       [geoId |-> <<"p", "4", "6">>, name |-> <<"L", "o", "u">>, zipCode |-> Null] >>

\* where: { OR: [name contains (insensitive), zipCode contains, geoId contains] }
WhereClause(area, searchTerm) ==
    \/ Contains(ToLower(area.name), ToLower(searchTerm))
    \/ (area.zipCode # Null /\ Contains(area.zipCode, searchTerm))
    \/ Contains(area.geoId, searchTerm)

\* results.map(area => ({ geoId, name, zipCode: area.zipCode || undefined, ... }))
ToSearchResult(area) ==
    [geoId |-> area.geoId, name |-> area.name,
     zipCode |-> IF area.zipCode = Null THEN Undefined ELSE area.zipCode]

\* GET /api/geo/search?q=query&limit=limit, when no query of prisma fails
SearchGET(query, limit) ==
    IF query = <<>> \/ Len(Trim(query)) < 2
    THEN [results |-> <<>>, total |-> 0, query |-> query]
    ELSE LET searchTerm == Trim(query)
             found == SelectSeq(AreasByName, LAMBDA area : WhereClause(area, searchTerm))
             taken == SubSeq(found, 1, IF Len(found) < limit THEN Len(found) ELSE limit)
         IN  [results |-> [i \in 1..Len(taken) |-> ToSearchResult(taken[i])],
              total |-> Len(found),
              query |-> searchTerm]

\* the catch of the route: { error }, status 500
ServerError == [error |-> "Internal server error"]

\* data.results || []
ResultsOrEmpty(data) == IF "results" \in DOMAIN data THEN data.results ELSE <<>>

\* values of the input box put to handleInputChange
QuerySamples ==
    { <<>>, <<"l">>, <<"l", "o">>, <<"c", "h">>, <<"l", " ">>, <<"6", "0">>, <<"x", "y">> }

SearchIdle ==
    /\ searchQuery = <<>>
    /\ searchResults = <<>>
    /\ isSearching = FALSE
    /\ inFlight = {}
    /\ typed = 0
    /\ failedFetches = {}

\* handleInputChange: setSearchQuery(value); handleSearch(value) up to its
\* first await
handleInputChange(value) ==
    /\ typed < MaxTyped
    /\ typed' = typed + 1
    /\ searchQuery' = value
    /\ IF Len(value) < 2
       THEN /\ searchResults' = <<>>
            /\ UNCHANGED <<isSearching, inFlight>>
       ELSE /\ isSearching' = TRUE
            /\ inFlight' = inFlight \cup {[id |-> typed + 1, query |-> value]}
            /\ UNCHANGED searchResults
    /\ UNCHANGED failedFetches
    /\ UNCHANGED hwVars
    /\ UNCHANGED aggVars

\* the response arrives: handleSearch goes on after await fetch and await
\* response.json(), then runs its finally
ResponseArrives(request) ==
    /\ request \in inFlight
    /\ \E ok \in BOOLEAN :
           /\ searchResults' = ResultsOrEmpty(IF ok THEN SearchGET(request.query, SearchLimit)
                                                    ELSE ServerError)
           /\ failedFetches' = IF ok THEN failedFetches
                                     ELSE failedFetches \cup {request.id}
    /\ isSearching' = FALSE
    /\ inFlight' = inFlight \ {request}
    /\ UNCHANGED <<searchQuery, typed>>
    /\ UNCHANGED hwVars
    /\ UNCHANGED aggVars

\* fetch or response.json() rejects: catch { setSearchResults([]) }, finally
FetchRejects(request) ==
    /\ request \in inFlight
    /\ searchResults' = <<>>
    /\ isSearching' = FALSE
    /\ inFlight' = inFlight \ {request}
    /\ failedFetches' = failedFetches \cup {request.id}
    /\ UNCHANGED <<searchQuery, typed>>
    /\ UNCHANGED hwVars
    /\ UNCHANGED aggVars

HarnessIdle == call = [fn |-> "none"] /\ ret = Pending

JobIdle ==
    /\ clock = 0
    /\ snapshotCache = {}
    /\ pc = "idle"
    /\ config = NoFields
    /\ asofDate = 0
    /\ geoAreas = <<>>
    /\ idx = 0
    /\ failed = {}
    /\ upserted = {}
    /\ lastUpsert = NoFields
    /\ builtAt = NoFields
    /\ overwritten = {}
    /\ connected = FALSE
    /\ disconnects = 0
    /\ runs = 0

\* every stored series holds MaxPoints observations
FullStore == StoreOf([g \in GeoIds |-> [s \in {"income", "age"} |-> MaxPoints]])

JobNext(limit) ==
    \/ \E cfg \in Configs : runs < limit /\ StartRun(cfg)
    \/ FindManyReturns
    \/ FindManyThrows
    \/ LoopBodyCompletes
    \/ BuildSnapshotThrows
    \/ UpsertThrows
    \/ LoopEnds
    \/ Disconnect
    \/ Tick

\* repeated runs of the job over a fully populated store
Init ==
    /\ HarnessIdle
    /\ JobIdle
    /\ SearchIdle
    /\ metricObs = FullStore

Next == JobNext(MaxRuns)

Spec == Init /\ [][Next]_vars

\* one run of the job over every store
InitBatch ==
    /\ HarnessIdle
    /\ JobIdle
    /\ SearchIdle
    /\ metricObs \in Stores

NextBatch == JobNext(1)

SpecBatch == InitBatch /\ [][NextBatch]_vars

InitHW ==
    /\ call \in HWCalls \cup GPCalls
    /\ ret = Pending
    /\ JobIdle
    /\ SearchIdle
    /\ metricObs = FullStore

NextHW ==
    \/ CallHoltWintersForecast
    \/ CallGenerateProjections

SpecHW == InitHW /\ [][NextHW]_vars

\* one call of an exported function of the CAGR calculator
InitCAGR ==
    /\ call \in CagrCalls
    /\ ret = Pending
    /\ JobIdle
    /\ SearchIdle
    /\ metricObs = FullStore

NextCAGR ==
    \/ CallCalculateCAGR
    \/ CallClassifyGrowthTrend
    \/ CallFormatCAGR

SpecCAGR == InitCAGR /\ [][NextCAGR]_vars

\* one call of an exported function of the migration analyzer
InitMig ==
    /\ call \in MigCalls
    /\ ret = Pending
    /\ JobIdle
    /\ SearchIdle
    /\ metricObs = FullStore

NextMig ==
    \/ CallCalculateRollingAverage
    \/ CallAnalyzeMigrationSignal
    \/ CallGenerateMigrationDescription

SpecMig == InitMig /\ [][NextMig]_vars

\* one call of an exported function of the forecaster or the migration analyzer
InitLib ==
    /\ call \in HWCalls \cup GPCalls \cup FPCalls \cup MigCalls
    /\ ret = Pending
    /\ JobIdle
    /\ SearchIdle
    /\ metricObs = FullStore

NextLib ==
    \/ NextHW
    \/ CallFormatProjectionForAPI
    \/ NextMig

SpecLib == InitLib /\ [][NextLib]_vars

\* the search box of a page, the job and the harness idle
InitSearch ==
    /\ HarnessIdle
    /\ JobIdle
    /\ SearchIdle
    /\ metricObs = FullStore

NextSearch ==
    \/ \E value \in QuerySamples : handleInputChange(value)
    \/ \E request \in inFlight : ResponseArrives(request)
    \/ \E request \in inFlight : FetchRejects(request)

SpecSearch == InitSearch /\ [][NextSearch]_vars

---------------------------------------------------------------------------
(* Properties *)

HasRow(geoId, asof) == \E r \in snapshotCache : r.geoId = geoId /\ r.asof = asof
RowOf(geoId, asof)  == CHOOSE r \in snapshotCache : r.geoId = geoId /\ r.asof = asof

\* geoAreas the for-loop of the current run has finished
Processed == {geoAreas[i] : i \in 1..idx}

\* the series the build of the stored snapshot of geoId read in the current run
IncomeRead(geoId) ==
    getLatestMetricData(geoId, "hh_income_median", Lookback, builtAt[<<geoId, asofDate>>])
PerCapitaRead(geoId) ==
    getLatestMetricData(geoId, "income_per_capita", Lookback, builtAt[<<geoId, asofDate>>])
AgeRead(geoId) ==
    getLatestMetricData(geoId, "age_median", Lookback, builtAt[<<geoId, asofDate>>])
MigrationRead(geoId) ==
    getMigrationData(geoId, Lookback, builtAt[<<geoId, asofDate>>])

ForecasterCannotRun(geoId) == Len(IncomeRead(geoId)) < 2 \/ Len(AgeRead(geoId)) < 2

\* C1: in buildSnapshots a failure of buildSnapshotForGeo or upsertSnapshot for
\* some geographies is caught inside the loop: the run never raises because of
\* it (only a failed listing raises, before any geography is touched), and
\* every listed geography that did not fail has its snapshot upserted.
C1_FailureIsolation ==
    /\ pc = "finallyThrow" => failed = {} /\ upserted = {} /\ idx = 0
    /\ pc \in {"loop", "finallyReturn"} =>
          \A g \in Processed :
              g \notin failed => g \in upserted /\ HasRow(g, asofDate)
    /\ pc = "finallyReturn" => Processed = Range(geoAreas)

\* a finished batch whose first geography failed and whose second was upserted
C1_Witness ==
    /\ pc = "finallyReturn"
    /\ Len(geoAreas) = 2
    /\ geoAreas[1] \in failed
    /\ geoAreas[2] \in upserted
    /\ HasRow(geoAreas[2], asofDate)

\* C2: when the forecaster cannot run for a geography (income or age history
\* shorter than 2 points) and its reads and upsert do not fail, a record is
\* still upserted: proj10 holds the neutral placeholders and the other fields
\* hold the latest stored values and the employment figures; a geography of the
\* same batch with enough history keeps its forecast-based projection.
C2_FallbackRecord ==
    pc \in {"loop", "finallyReturn"} =>
        \A g \in Processed \ failed :
            /\ g \in upserted
            /\ HasRow(g, asofDate)
            /\ LET row == RowOf(g, asofDate)
               IN  /\ row.incomePerCapita  = LatestValue(PerCapitaRead(g))
                   /\ row.hhIncomeMedian   = LatestValue(IncomeRead(g))
                   /\ row.ageMedian        = LatestValue(AgeRead(g))
                   /\ row.netMigration1834 = LatestValue(MigrationRead(g))
                   /\ row.empGrowth5y      = getEmploymentTrends(g, Lookback).totalGrowth
                   /\ row.topGrowing       = getEmploymentTrends(g, Lookback).topGrowing
                   /\ row.topDeclining     = getEmploymentTrends(g, Lookback).topDeclining
                   /\ IF ForecasterCannotRun(g)
                      THEN row.proj10 = [population_idx |-> Num(1),
                                         hh_income_idx  |-> Num(1),
                                         age_median     |-> Null,
                                         p25            |-> [hh_income_idx |-> Num(1)],
                                         p75            |-> [hh_income_idx |-> Num(1)]]
                      ELSE /\ row.proj10.age_median # Null
                           /\ row.proj10.population_idx = Frac(106, 100)
                           /\ row.proj10.age_median =
                                 Last(holtWintersForecast(ToTimeSeries(AgeRead(g)), 10,
                                                          DefaultParams).value.forecast)

\* a finished batch of two records: one with history too short to forecast
\* (placeholders beside a stored income value), one with a forecast
C2_Witness ==
    /\ pc = "finallyReturn"
    /\ \E g, h \in upserted :
          /\ ForecasterCannotRun(g)
          /\ RowOf(g, asofDate).hhIncomeMedian # Null
          /\ RowOf(g, asofDate).proj10.age_median = Null
          /\ ~ForecasterCannotRun(h)
          /\ RowOf(h, asofDate).proj10.age_median # Null

\* C3 (as claimed): with the stored observations unchanged, a later run for
\* the same geography and as-of date leaves the stored record as it was.
C3_RerunIdempotent == [][\A r \in snapshotCache : r \in snapshotCache']_vars

\* C4: the snapshot store holds at most one record per (geoId, asof), and that
\* record is the snapshot of the latest completed upsert for the key.
C4_OneRecordPerKey ==
    /\ \A r1, r2 \in snapshotCache : Key(r1) = Key(r2) => r1 = r2
    /\ {Key(r) : r \in snapshotCache} = DOMAIN lastUpsert
    /\ \A r \in snapshotCache : r = lastUpsert[Key(r)]

\* a key whose record a later run overwrote after the clock had advanced,
\* beside the record of another key
C4_Witness ==
    \E k \in overwritten :
        /\ builtAt[k] > 0
        /\ HasRow(k[1], k[2])
        /\ \E r \in snapshotCache : Key(r) # k

\* C5: holtWintersForecast raises exactly when the series has fewer than 2
\* points; for 2 or more points it returns a ProjectionResult.
C5_ThrowsIffShort ==
    (call.fn = "holtWintersForecast" /\ ret # Pending) =>
        /\ ret.kind = "throw" <=> Len(call.data) < 2
        /\ ret.kind = "return" <=> Len(call.data) >= 2
        /\ ret.kind = "return" =>
              DOMAIN ret.value = {"forecast", "confidenceBands", "mape"}

\* the call with a single point has raised
C5_Witness ==
    /\ call.fn = "holtWintersForecast"
    /\ Len(call.data) = 1
    /\ ret.kind = "throw"

\* C6 (as claimed): generateProjections produces the projection of every
\* series of 2 or more points, whatever the other series are.
C6_SeriesIsolated ==
    (call.fn = "generateProjections" /\ ret # Pending) =>
        /\ Len(call.incomeData) >= 2 =>
              ret.kind = "return" /\ ret.value.income =
                  holtWintersForecast(call.incomeData, 10, DefaultParams).value
        /\ Len(call.populationData) >= 2 =>
              ret.kind = "return" /\ ret.value.population =
                  holtWintersForecast(call.populationData, 10, DefaultParams).value
        /\ Len(call.ageData) >= 2 =>
              ret.kind = "return" /\ ret.value.age =
                  holtWintersForecast(call.ageData, 10, DefaultParams).value

\* C7 (as claimed): when only the age series is too short, age_median becomes
\* null and the income indices keep the values computed from the income forecast.
C7_SubMetricIsolated ==
    pc \in {"loop", "finallyReturn"} =>
        \A g \in upserted :
            (Len(AgeRead(g)) < 2 /\ Len(IncomeRead(g)) >= 2) =>
                LET row    == RowOf(g, asofDate)
                    income == holtWintersForecast(ToTimeSeries(IncomeRead(g)), 10,
                                                  DefaultParams).value
                    first  == IncomeRead(g)[1].value
                IN  /\ row.proj10.age_median = Null
                    /\ row.proj10.hh_income_idx =
                          OrElse(Div(Last(income.forecast), first), Num(1))
                    /\ row.proj10.p25.hh_income_idx =
                          OrElse(Div(Last(income.confidenceBands.lower), first), Num(1))
                    /\ row.proj10.p75.hh_income_idx =
                          OrElse(Div(Last(income.confidenceBands.upper), first), Num(1))

\* the migration observations as the analyzer's MigrationDataPoint[]
MigrationPoints(rows) ==
    [i \in 1..Len(rows) |-> [year |-> rows[i].period, netMigration1834 |-> rows[i].value]]

\* C8 (as claimed): the snapshot's net-migration field comes from the
\* MigrationSignal of analyzeMigrationSignal on the migration observations.
C8_MigrationFromAnalyzer ==
    pc \in {"loop", "finallyReturn"} =>
        \A g \in upserted :
            LET signal == analyzeMigrationSignal(MigrationPoints(MigrationRead(g)),
                                                 builtAt[<<g, asofDate>>])
            IN  RowOf(g, asofDate).netMigration1834
                    \in {signal.netMigration, signal.rollingAverage}

\* C9: for a series of 2 or more points and a horizon N >= 0, forecast and both
\* confidence bands have length exactly N.
C9_ForecastLengths ==
    (call.fn = "holtWintersForecast" /\ ret.kind = "return") =>
        /\ Len(ret.value.forecast) = call.periods
        /\ Len(ret.value.confidenceBands.lower) = call.periods
        /\ Len(ret.value.confidenceBands.upper) = call.periods

\* the default horizon of 10 on a series of 3 points
C9_Witness ==
    /\ call.fn = "holtWintersForecast"
    /\ ret.kind = "return"
    /\ Len(call.data) = 3
    /\ call.periods = DefaultPeriods
    /\ Len(ret.value.forecast) = 10

\* values[k] = a + k * d for some a, d
IsLinear(data) ==
    \A i \in 2..(Len(data) - 1) :
        Sub(data[i + 1].value, data[i].value) = Sub(data[i].value, data[i - 1].value)

\* C10 (as claimed): for a perfectly linear series of non-zero values the MAPE
\* is near 0 (below one percent).
C10_LinearMapeZero ==
    (/\ call.fn = "holtWintersForecast"
     /\ ret.kind = "return"
     /\ IsLinear(call.data)
     /\ \A i \in 1..Len(call.data) : call.data[i].value.n # 0)
        => Lt(ret.value.mape, Num(1))

\* C11: for a perfectly linear series (values[k] = a + k * d, 2 or more
\* points) and alpha, beta in [0, 1], the forecast continues the line:
\* forecast[i] = last value + i * d for every i in 1..horizon.
C11_LinearForecast ==
    (/\ call.fn = "holtWintersForecast"
     /\ ret.kind = "return"
     /\ IsLinear(call.data))
        => LET n == Len(call.data)
               d == Sub(call.data[2].value, call.data[1].value)
           IN  \A i \in 1..call.periods :
                   ret.value.forecast[i] = Add(call.data[n].value, Mul(Num(i), d))

\* a rising line of 3 points, smoothed with alpha = beta = 1/2, forecast 10 ahead
C11_Witness ==
    /\ call.fn = "holtWintersForecast"
    /\ ret.kind = "return"
    /\ Len(call.data) = 3
    /\ IsLinear(call.data)
    /\ call.data[2].value # call.data[1].value
    /\ call.params = [alpha |-> Frac(1, 2), beta |-> Frac(1, 2)]
    /\ call.periods = DefaultPeriods
    /\ ret.value.forecast[10] =
           Add(call.data[3].value,
               Mul(Num(10), Sub(call.data[2].value, call.data[1].value)))

\* a number that compares <= 0 (NaN does not)
NonPositive(x) == ~IsNaN(x) /\ x.n <= 0

\* C12: calculateCAGR returns exactly 0, and never an error, whenever
\* startValue <= 0, or endValue <= 0, or years <= 0, whatever the other two
\* arguments are (NaN and Infinity included).
C12_DegenerateIsZero ==
    (/\ call.fn = "calculateCAGR"
     /\ ret # Pending
     /\ \/ NonPositive(call.startValue)
        \/ NonPositive(call.endValue)
        \/ NonPositive(call.years))
        => ret = [kind |-> "return", value |-> [n |-> 0, d |-> 1]]

\* a zero start value beside a positive end value and a positive number of years
C12_Witness ==
    /\ call.fn = "calculateCAGR"
    /\ call.startValue = Num(0)
    /\ call.endValue = Num(200)
    /\ call.years = Num(2)
    /\ ret = Return(Num(0))

\* x^k for a finite x and a natural k, numerator and denominator apart
RatPow(x, k) == [n |-> IntPow(x.n, k), d |-> IntPow(x.d, k)]

PositiveFinite(x) == IsFinite(x) /\ x.n > 0

\* C13: for positive (finite) startValue, endValue and years = p / q,
\* calculateCAGR returns r with (r + 1)^p = (endValue / startValue)^q, up to
\* the resolution 1 / PowGrid kept for irrational roots; the result is exactly
\* 0 when endValue = startValue and exactly endValue / startValue - 1 when
\* years = 1.
C13_CagrFormula ==
    (/\ call.fn = "calculateCAGR"
     /\ ret # Pending
     /\ PositiveFinite(call.startValue)
     /\ PositiveFinite(call.endValue)
     /\ PositiveFinite(call.years))
        => LET r      == Add(ret.value, Num(1))
               ratio  == Norm(call.endValue.n * call.startValue.d,
                              call.endValue.d * call.startValue.n)
               target == RatPow(ratio, call.years.d)
               low    == RatPow(r, call.years.n)
               high   == RatPow(Add(r, Frac(1, PowGrid)), call.years.n)
           IN  /\ ret.kind = "return"
               /\ IsFinite(ret.value)
               /\ \/ low = target
                  \/ /\ low.n * target.d < target.n * low.d
                     /\ target.n * high.d < high.n * target.d
               /\ call.endValue = call.startValue => ret.value = Num(0)
               /\ call.years = Num(1) =>
                     Mul(r, call.startValue) = call.endValue
               /\ (call.years.n = 1 \/ ratio.n = ratio.d) => low = target

\* the spec's example 100 -> 200 in one year, which returns 1.0
C13_Witness ==
    /\ call.fn = "calculateCAGR"
    /\ call.startValue = Num(100)
    /\ call.endValue = Num(200)
    /\ call.years = Num(1)
    /\ ret = Return(Num(1))

\* C14: classifyGrowthTrend returns "growing" exactly when cagr > 0.02,
\* "declining" exactly when cagr < -0.02 and "stable" otherwise; 0.02 and -0.02
\* themselves are "stable".
C14_TrendClasses ==
    (call.fn = "classifyGrowthTrend" /\ ret # Pending) =>
        LET c       == call.cagr
            above   == IF IsFinite(c) THEN 50 * c.n > c.d ELSE c.n = 1
            below   == IF IsFinite(c) THEN 50 * c.n < -c.d ELSE c.n = -1
        IN  /\ ret.kind = "return"
            /\ ret.value \in {"growing", "declining", "stable"}
            /\ ret.value = "growing" <=> above
            /\ ret.value = "declining" <=> below
            /\ ret.value = "stable" <=> ~above /\ ~below
            /\ c \in {[n |-> 1, d |-> 50], [n |-> -1, d |-> 50]} => ret.value = "stable"

\* the boundary value 0.02 has been classified "stable"
C14_Witness ==
    /\ call.fn = "classifyGrowthTrend"
    /\ call.cagr = Frac(2, 100)
    /\ ret = Return("stable")

RECURSIVE ParseDigits(_)
ParseDigits(chars) ==
    IF chars = <<>> THEN 0
    ELSE 10 * ParseDigits(SubSeq(chars, 1, Len(chars) - 1))
         + (CHOOSE k \in 0..9 : DigitChars[k + 1] = chars[Len(chars)])

IsDigit(c) == \E k \in 1..10 : DigitChars[k] = c

\* C15: for every (finite) cagr, formatCAGR returns one sign character ("+"
\* when cagr >= 0, "-" when cagr < 0, also when the value rounds to 0.0),
\* then the digits of |cagr * 100| rounded to one decimal place, then "%".
C15_SignedPercent ==
    (call.fn = "formatCAGR" /\ ret # Pending /\ IsFinite(call.cagr)) =>
        LET str   == ret.value
            len   == Len(str)
            body  == SubSeq(str, 2, len - 3) \o <<str[len - 1]>>
            shown == Frac(ParseDigits(body), 10)
            exact == [n |-> 100 * AbsInt(call.cagr.n), d |-> call.cagr.d]
        IN  /\ ret.kind = "return"
            /\ len >= 5
            /\ str[1] = "+" <=> call.cagr.n >= 0
            /\ str[1] = "-" <=> call.cagr.n < 0
            /\ str[len] = "%"
            /\ str[len - 2] = "."
            /\ \A i \in 1..Len(body) : IsDigit(body[i])
            /\ 20 * AbsInt(shown.n * exact.d - exact.n * shown.d)
                  <= shown.d * exact.d

\* a negative value that rounds to 0.0 and keeps its sign
C15_Witness ==
    /\ call = [fn |-> "formatCAGR", cagr |-> Frac(-4, 10000)]
    /\ ret = Return(<<"-", "0", ".", "0", "%">>)

\* positions of the points of data whose year lies in lo..hi
WindowIdx(data, lo, hi) == {i \in 1..Len(data) : data[i].year \in lo..hi}

\* sum of netMigration1834 over a set of positions
RECURSIVE SumAt(_, _)
SumAt(data, I) ==
    IF I = {} THEN Num(0)
    ELSE LET i == CHOOSE j \in I : TRUE
         IN  Add(data[i].netMigration1834, SumAt(data, I \ {i}))

\* arithmetic mean over the window, 0 for an empty window
WindowMean(data, lo, hi) ==
    LET I == WindowIdx(data, lo, hi)
    IN  IF I = {} THEN Num(0) ELSE Div(SumAt(data, I), Num(Cardinality(I)))

\* C16: calculateRollingAverage(data, year) is the arithmetic mean of
\* netMigration1834 over exactly the points whose year is in [year - 2, year],
\* in whatever order the points are given, and 0 when no point is in the window.
C16_RollingAverage ==
    (call.fn = "calculateRollingAverage" /\ ret # Pending) =>
        LET I == WindowIdx(call.data, call.currentYear - 2, call.currentYear)
        IN  /\ ret.kind = "return"
            /\ I = {} => ret.value = Num(0)
            /\ I # {} => Mul(ret.value, Num(Cardinality(I))) = SumAt(call.data, I)

\* two points inside the window around one outside it, not in year order
C16_Witness ==
    /\ call.fn = "calculateRollingAverage"
    /\ call.currentYear = 0
    /\ call.data = <<Point(0, 30), Point(-3, 10), Point(0, 10)>>
    /\ ret = Return(Num(20))

\* R - P: the mean over [year - 2, year] less the mean over [year - 5, year - 3]
WindowGap(data, year) ==
    Sub(WindowMean(data, year - 2, year), WindowMean(data, year - 5, year - 3))

\* C17: analyzeMigrationSignal(data, year) sets trend from R = the rolling
\* average ending at year and P = the one ending at year - 3: "increasing"
\* exactly when R > P + 10, "decreasing" exactly when R < P - 10, otherwise
\* "stable" (a difference of exactly 10 is "stable").
C17_Trend ==
    (call.fn = "analyzeMigrationSignal" /\ ret # Pending) =>
        LET gap == WindowGap(call.data, call.currentYear)
        IN  /\ ret.kind = "return"
            /\ ret.value.trend \in {"increasing", "decreasing", "stable"}
            /\ ret.value.trend = "increasing" <=> gap.n > 10 * gap.d
            /\ ret.value.trend = "decreasing" <=> gap.n < -10 * gap.d
            /\ AbsInt(gap.n) = 10 * gap.d => ret.value.trend = "stable"

\* the later window (30) exceeds the earlier one (10) by more than 10
C17_Witness ==
    /\ call.fn = "analyzeMigrationSignal"
    /\ call.currentYear = 0
    /\ call.data = <<Point(-3, 10), Point(0, 30)>>
    /\ ret.kind = "return"
    /\ ret.value.trend = "increasing"

\* C18: analyzeMigrationSignal(data, year) sets confidence from c = the number
\* of points with year >= year - 4 (no upper bound) and R, P as in C17: "high"
\* exactly when c >= 4 and |R - P| > 20; otherwise "medium" exactly when
\* c >= 3; otherwise "low".
C18_Confidence ==
    (call.fn = "analyzeMigrationSignal" /\ ret # Pending) =>
        LET gap  == WindowGap(call.data, call.currentYear)
            c    == Cardinality({i \in 1..Len(call.data) :
                                    call.data[i].year >= call.currentYear - 4})
            high == c >= 4 /\ AbsInt(gap.n) > 20 * gap.d
        IN  /\ ret.value.confidence \in {"high", "medium", "low"}
            /\ ret.value.confidence = "high" <=> high
            /\ ret.value.confidence = "medium" <=> ~high /\ c >= 3
            /\ ret.value.confidence = "low" <=> c < 3

\* four counted points, one of them dated after the current year
C18_Witness ==
    /\ call.fn = "analyzeMigrationSignal"
    /\ call.currentYear = 0
    /\ call.data = <<Point(0, 30), Point(0, 30), Point(0, 30), Point(1, 10)>>
    /\ ret.kind = "return"
    /\ ret.value.confidence = "high"

\* C19: generateMigrationDescription maps rollingAverage to one base sentence
\* (> 50 significant influx; else > 10 moderate influx; else < -50 significant
\* outflow; else < -10 moderate outflow; else stable population; 50, 10, -10
\* and -50 fall in the weaker class), then appends "(trending upward)" or
\* "(trending downward)" exactly when trend is increasing or decreasing, then
\* "(limited data)" exactly when confidence is low.
C19_Description ==
    (call.fn = "generateMigrationDescription" /\ ret # Pending) =>
        LET r    == call.signal.rollingAverage
            over(k)  == IsFinite(r) /\ r.n > k * r.d
            under(k) == IsFinite(r) /\ r.n < k * r.d
            base == CASE over(50)                  -> "Significant influx of young adults"
                      [] over(10) /\ ~over(50)     -> "Moderate influx of young adults"
                      [] under(-50)                -> "Significant outflow of young adults"
                      [] under(-10) /\ ~under(-50) -> "Moderate outflow of young adults"
                      [] OTHER                     -> "Stable young adult population"
            up   == IF call.signal.trend = "increasing" THEN " (trending upward)" ELSE ""
            down == IF call.signal.trend = "decreasing" THEN " (trending downward)" ELSE ""
            few  == IF call.signal.confidence = "low" THEN " (limited data)" ELSE ""
        IN  /\ ret = [kind |-> "return", value |-> base \o up \o down \o few]
            /\ (r = Num(50) /\ call.signal.trend = "stable"
                            /\ call.signal.confidence = "high")
                  => ret.value = "Moderate influx of young adults"
            /\ (r = Num(-10) /\ call.signal.trend = "decreasing"
                             /\ call.signal.confidence = "low")
                  => ret.value =
                        "Stable young adult population (trending downward) (limited data)"

\* the boundary value -50 with both qualifiers appended in order
C19_Witness ==
    /\ call.fn = "generateMigrationDescription"
    /\ call.signal.rollingAverage = Num(-50)
    /\ call.signal.trend = "increasing"
    /\ call.signal.confidence = "low"
    /\ ret = Return("Moderate outflow of young adults (trending upward) (limited data)")

ValuesOf(data) == [i \in 1..Len(data) |-> data[i].value]

NonZeroValues(data) == \A i \in 1..Len(data) : data[i].value.n # 0

\* the level the smoothing recurrences reach after the first k points, and
\* the trend with it, written as a recursion on k
RECURSIVE RefFit(_, _, _)
RefFit(values, params, k) ==
    IF k = 1
    THEN [level |-> values[1], trend |-> Sub(values[2], values[1])]
    ELSE LET prev  == RefFit(values, params, k - 1)
             level == Add(Mul(params.alpha, values[k]),
                          Mul(Sub(Num(1), params.alpha), Add(prev.level, prev.trend)))
         IN  [level |-> level,
              trend |-> Add(Mul(params.beta, Sub(level, prev.level)),
                            Mul(Sub(Num(1), params.beta), prev.trend))]

\* C21 (as claimed): the MAPE is the mean, over every point k but the first,
\* of |values[k] - fitted[k]| / values[k] * 100, where fitted[k] is the
\* smoothed level recorded for the same point k.
C21_MapeSameIndex ==
    (/\ call.fn = "holtWintersForecast"
     /\ ret.kind = "return"
     /\ NonZeroValues(call.data))
        => LET values == ValuesOf(call.data)
               n      == Len(values)
               errors == [j \in 1..(n - 1) |->
                             Mul(Div(Abs(Sub(values[j + 1],
                                             RefFit(values, call.params, j + 1).level)),
                                     values[j + 1]),
                                 Num(100))]
           IN  Mul(ret.value.mape, Num(n - 1)) = SumSeq(errors)

\* C22: holtWintersForecast computes its forecast as double exponential
\* smoothing does: from level = values[0], trend = values[1] - values[0], each
\* later point in order gives newLevel = alpha * value + (1 - alpha) * (level +
\* trend) and newTrend = beta * (newLevel - level) + (1 - beta) * trend, with
\* the level from before the step; then forecast[i] = L + i * T for the final
\* pair (L, T), so consecutive forecast values differ by the constant T.
C22_SmoothingRecurrence ==
    (call.fn = "holtWintersForecast" /\ ret.kind = "return") =>
        LET final    == RefFit(ValuesOf(call.data), call.params, Len(call.data))
            forecast == ret.value.forecast
        IN  /\ \A i \in 1..call.periods :
                   forecast[i] = Add(final.level, Mul(Num(i), final.trend))
            /\ \A i \in 1..(call.periods - 1) :
                   Sub(forecast[i + 1], forecast[i]) = final.trend

\* a series of 3 points that is not a line, smoothed with the default params
C22_Witness ==
    /\ call.fn = "holtWintersForecast"
    /\ ret.kind = "return"
    /\ Len(call.data) = 3
    /\ ~IsLinear(call.data)
    /\ call.params = DefaultParams
    /\ call.periods = DefaultPeriods
    /\ Sub(ret.value.forecast[2], ret.value.forecast[1]) # Num(0)

\* no actual value that the MAPE divides by is 0
NoZeroActual(data) == \A i \in 2..Len(data) : data[i].value.n # 0

\* C23: for every forecast index i, lower[i] = forecast[i] * (1 - MAPE / 100)
\* and upper[i] = forecast[i] * (1 + MAPE / 100), so the bands are symmetric
\* about the forecast: lower[i] + upper[i] = 2 * forecast[i].  (Read over the
\* series whose MAPE is defined: no actual value of 0.)
C23_BandSymmetry ==
    (/\ call.fn = "holtWintersForecast"
     /\ ret.kind = "return"
     /\ NoZeroActual(call.data))
        => LET f     == ret.value.forecast
               share == [i \in 1..Len(f) |-> Div(Mul(f[i], ret.value.mape), Num(100))]
           IN  /\ IsFinite(ret.value.mape)
               /\ \A i \in 1..Len(f) :
                      /\ ret.value.confidenceBands.lower[i] = Sub(f[i], share[i])
                      /\ ret.value.confidenceBands.upper[i] = Add(f[i], share[i])
                      /\ Add(ret.value.confidenceBands.lower[i],
                             ret.value.confidenceBands.upper[i]) = Mul(Num(2), f[i])

\* a forecast with a non-zero MAPE, so that the bands differ from the forecast
C23_Witness ==
    /\ call.fn = "holtWintersForecast"
    /\ ret.kind = "return"
    /\ NoZeroActual(call.data)
    /\ call.periods = DefaultPeriods
    /\ ret.value.mape # Num(0)
    /\ ret.value.forecast[10] # Num(0)
    /\ ret.value.confidenceBands.lower[10] # ret.value.confidenceBands.upper[10]

\* C24: formatProjectionForAPI is a pure reshaping of its ProjectionResult:
\* p25.hh_income_idx is the last element of confidenceBands.lower,
\* p75.hh_income_idx the last element of confidenceBands.upper, and
\* population_idx, hh_income_idx and age_median are each the last element of
\* forecast; the result depends neither on baseYear nor on any forecast
\* element but the last.
C24_Reshaping ==
    (call.fn = "formatProjectionForAPI" /\ ret # Pending) =>
        LET r == call.result
            n == Len(r.forecast)
        IN  /\ ret.kind = "return"
            /\ DOMAIN ret.value =
                  {"population_idx", "hh_income_idx", "age_median", "p25", "p75"}
            /\ n > 0 =>
                  /\ ret.value.population_idx = r.forecast[n]
                  /\ ret.value.hh_income_idx = r.forecast[n]
                  /\ ret.value.age_median = r.forecast[n]
                  /\ ret.value.p25 = [hh_income_idx |-> r.confidenceBands.lower[n]]
                  /\ ret.value.p75 = [hh_income_idx |-> r.confidenceBands.upper[n]]
            /\ n = 0 => ret.value.age_median = Undefined
            /\ \A y \in BaseYears : formatProjectionForAPI(r, y) = ret.value

\* a forecast of 10 elements whose first and last elements differ
C24_Witness ==
    /\ call.fn = "formatProjectionForAPI"
    /\ ret.kind = "return"
    /\ Len(call.result.forecast) = 10
    /\ call.result.forecast[1] # call.result.forecast[10]
    /\ ret.value.age_median = call.result.forecast[10]
    /\ ret.value.p25.hh_income_idx # ret.value.p75.hh_income_idx

\* C27: analyzeMigrationSignal never returns confidence "high" together with
\* trend "stable": "high" needs the two rolling averages to differ by more
\* than 20, which makes the trend "increasing" or "decreasing".
C27_HighIsNeverStable ==
    (call.fn = "analyzeMigrationSignal" /\ ret # Pending) =>
        /\ ~(ret.value.confidence = "high" /\ ret.value.trend = "stable")
        /\ ret.value.confidence = "high" =>
              AbsInt(WindowGap(call.data, call.currentYear).n)
                  > 20 * WindowGap(call.data, call.currentYear).d

\* four counted points, the later window 40 below the earlier one: "high"
\* with the trend "decreasing"
C27_Witness ==
    /\ call.fn = "analyzeMigrationSignal"
    /\ call.currentYear = 0
    /\ call.data = <<Point(-2, -30), Point(-2, -30), Point(-3, 10), Point(1, 10)>>
    /\ ret.kind = "return"
    /\ ret.value.confidence = "high"
    /\ ret.value.trend = "decreasing"

\* C28: when no point has a year in the earlier window [year - 5, year - 3],
\* analyzeMigrationSignal treats the earlier average as 0: trend is
\* "increasing" exactly when the rolling average ending at year is greater
\* than 10 and "decreasing" exactly when it is less than -10.
C28_EmptyEarlierWindow ==
    (/\ call.fn = "analyzeMigrationSignal"
     /\ ret # Pending
     /\ WindowIdx(call.data, call.currentYear - 5, call.currentYear - 3) = {})
        => LET recent == WindowMean(call.data, call.currentYear - 2, call.currentYear)
           IN  /\ ret.value.rollingAverage = recent
               /\ ret.value.trend = "increasing" <=> recent.n > 10 * recent.d
               /\ ret.value.trend = "decreasing" <=> recent.n < -10 * recent.d

\* one point, in the later window: "increasing" with nothing to compare against
C28_Witness ==
    /\ call.fn = "analyzeMigrationSignal"
    /\ call.currentYear = 0
    /\ call.data = <<Point(0, 30)>>
    /\ ret.kind = "return"
    /\ ret.value.trend = "increasing"
    /\ ret.value.confidence = "low"

\* C29: for a series with non-zero values the MAPE of holtWintersForecast is
\* never negative, and the bands are ordered by the sign of the forecast:
\* lower[i] <= forecast[i] <= upper[i] when forecast[i] >= 0, and
\* upper[i] <= forecast[i] <= lower[i] when forecast[i] < 0.
C29_BandOrder ==
    (/\ call.fn = "holtWintersForecast"
     /\ ret.kind = "return"
     /\ NonZeroValues(call.data))
        => LET f  == ret.value.forecast
               lo == ret.value.confidenceBands.lower
               up == ret.value.confidenceBands.upper
               AtMost(x, y) == IsFinite(x) /\ IsFinite(y) /\ x.n * y.d <= y.n * x.d
           IN  /\ IsFinite(ret.value.mape)
               /\ ret.value.mape.n >= 0
               /\ \A i \in 1..Len(f) :
                      IF f[i].n >= 0
                      THEN AtMost(lo[i], f[i]) /\ AtMost(f[i], up[i])
                      ELSE AtMost(up[i], f[i]) /\ AtMost(f[i], lo[i])

\* a negative forecast whose band named lower lies above the band named upper
C29_Witness ==
    /\ call.fn = "holtWintersForecast"
    /\ ret.kind = "return"
    /\ NonZeroValues(call.data)
    /\ call.periods = DefaultPeriods
    /\ ret.value.forecast[10].n < 0
    /\ Lt(ret.value.confidenceBands.upper[10], ret.value.confidenceBands.lower[10])

\* the stored observations of a series dated within Lookback years before now
InWindowAt(geoId, code, now) ==
    {o \in metricObs[geoId][code] : o.period >= now - Lookback}

\* the value of the latest of a set of observations, null for none
LatestOf(obs) ==
    IF obs = {} THEN Null
    ELSE Num((CHOOSE o \in obs : \A q \in obs : q.period <= o.period).value)

\* C25: the observations folded into a snapshot do not depend on asofDate:
\* they are those dated within 5 years before the wall-clock time of the run.
\* Two records of a geography built at the same wall-clock time with different
\* asofDate values differ only in the asof key, and a record with an asofDate
\* in the past holds the latest observations even when dated after asofDate.
C25_AsofIndependent ==
    /\ \A r1, r2 \in snapshotCache :
          (r1.geoId = r2.geoId /\ builtAt[Key(r1)] = builtAt[Key(r2)])
              => [r1 EXCEPT !.asof = r2.asof] = r2
    /\ \A r \in snapshotCache :
          LET now == builtAt[Key(r)]
          IN  /\ r.hhIncomeMedian =
                    LatestOf(InWindowAt(r.geoId, "hh_income_median", now))
              /\ r.incomePerCapita =
                    LatestOf(InWindowAt(r.geoId, "income_per_capita", now))
              /\ r.ageMedian = LatestOf(InWindowAt(r.geoId, "age_median", now))
              /\ r.netMigration1834 =
                    LatestOf(InWindowAt(r.geoId, "net_migration_18_34", now))

\* two records of one geography built at the same clock, one for an as-of date
\* in the past that holds an observation dated after that date
C25_Witness ==
    \E r1, r2 \in snapshotCache :
        /\ r1.geoId = r2.geoId
        /\ r1.asof < r2.asof
        /\ builtAt[Key(r1)] = builtAt[Key(r2)]
        /\ r1.asof < builtAt[Key(r1)]
        /\ \E o \in metricObs[r1.geoId]["hh_income_median"] :
              o.period > r1.asof /\ r1.hhIncomeMedian = Num(o.value)


\* a step of the loop body that attempts an upsert: the table changes, or a
\* geography joins the upserted or the failed ones
UpsertAttempted ==
    \/ snapshotCache' # snapshotCache
    \/ (upserted \subseteq upserted' /\ upserted' # upserted)
    \/ (failed \subseteq failed' /\ failed' # failed)

InRun == pc \in {"findMany", "loop", "finallyReturn", "finallyThrow"}

C26_DisconnectState ==
    /\ InRun => disconnects = 0
    /\ pc \in {"resolved", "rejected"} => (disconnects = 1 /\ ~connected)
    /\ pc = "finallyThrow" => (upserted = {} /\ failed = {} /\ idx = 0)

C26_DisconnectStep ==
    /\ UpsertAttempted => (pc = "loop" /\ disconnects = 0 /\ disconnects' = 0)
    /\ (pc = "findMany" /\ pc' # "findMany") => pc' \in {"loop", "finallyThrow"}
    /\ pc = "finallyThrow" =>
           /\ pc' \in {"finallyThrow", "rejected"}
           /\ snapshotCache' = snapshotCache
    /\ pc = "finallyReturn" => pc' \in {"finallyReturn", "resolved"}
    /\ (InRun /\ pc' \notin {"findMany", "loop", "finallyReturn", "finallyThrow"})
           => (disconnects' = 1 /\ pc \in {"finallyReturn", "finallyThrow"})

\* C26: every run of buildSnapshots makes exactly one prisma.$disconnect()
\* call, made after the run's last upsert attempt, whether the loop completed
\* or the listing of geographies failed; when the listing failed no upsert
\* is made and the run ends rejected with the listing's error.
C26_DisconnectOncePerRun == []C26_DisconnectState /\ [][C26_DisconnectStep]_vars

\* the second run ended rejected on a failed listing, after a first run that
\* wrote rows: one disconnect, the table as the first run left it
C26_Witness ==
    /\ pc = "rejected"
    /\ runs = 2
    /\ disconnects = 1
    /\ ~connected
    /\ snapshotCache # {}


\* what the route answers to the last typed query, nothing for a query the
\* page does not send
ResultsOfLastQuery ==
    IF Len(searchQuery) < 2 THEN <<>>
    ELSE SearchGET(searchQuery, SearchLimit).results

\* C30: once every response has arrived (no fetch in flight, none failed),
\* the displayed searchResults are those of the last typed query, the empty
\* list if that query is shorter than 2 characters.
C30_LastQueryWins ==
    (inFlight = {} /\ failedFetches = {}) => searchResults = ResultsOfLastQuery

====
